---- MODULE Spec2Model ----
(***************************************************************************)
(* A model of src/tile-fetcher.js: the TileFetcher class, its bounded     *)
(* insertion-ordered cache (a JavaScript Map), and the asynchronous fetch *)
(* method whose awaits are the points where other calls interleave.       *)
(*                                                                         *)
(* JavaScript strings are sequences of one-character strings, so that     *)
(* joining, percent-encoding and JSON serialisation are computed.  A      *)
(* missing option or field is the falsy value of its type: the empty      *)
(* string <<>> or the number 0 (the code tests them with || and !).        *)
(***************************************************************************)
EXTENDS Integers, Sequences, FiniteSets, TLC

(***************************************************************************)
(* Bounds of the model.                                                    *)
(***************************************************************************)
\* number of fetch calls made on the instance
MaxCalls == 3
\* number of distinct tiles (bounding boxes) the callers ask for
NumTiles == 2
\* largest maxCacheSize option passed to the constructor
MaxCacheOpt == 2
\* number of fetchAndDraw calls made on the instance
MaxDraws == 2

(***************************************************************************)
(* Program constants.                                                      *)
(***************************************************************************)
DefaultWidth == 512
DefaultHeight == 512
DefaultMaxCacheSize == 50
\* response.ok is true for a status in 200..299
OkLow == 200
OkHigh == 299

DefaultBands == <<"1", ",", "2", ",", "3">>

(***************************************************************************)
(* Text helpers: conversions the JavaScript runtime performs.             *)
(***************************************************************************)
Digit == <<"0", "1", "2", "3", "4", "5", "6", "7", "8", "9">>

RECURSIVE NumberToString(_)
NumberToString(n) ==
    IF n < 10 THEN <<Digit[n + 1]>>
    ELSE NumberToString(n \div 10) \o <<Digit[(n % 10) + 1]>>

\* Array.prototype.join(','), on an array of numbers
RECURSIVE ArrayJoin(_)
ArrayJoin(arr) ==
    IF Len(arr) = 0 THEN <<>>
    ELSE IF Len(arr) = 1 THEN NumberToString(arr[1])
    ELSE NumberToString(arr[1]) \o <<",">> \o ArrayJoin(Tail(arr))

\* application/x-www-form-urlencoded serialisation of one character
Unreserved ==
    {Digit[i] : i \in 1..10} \cup
    {"a", "b", "c", "d", "e", "f", "g", "h", "i", "j", "k", "l", "m", "n", "o",
     "p", "q", "r", "s", "t", "u", "v", "w", "x", "y", "z", "E", "P", "S", "G",
     "*", "-", ".", "_"}

PercentEncodeChar(ch) ==
    IF ch \in Unreserved THEN <<ch>>
    ELSE CASE ch = " " -> <<"+">>
           [] ch = "," -> <<"%", "2", "C">>
           [] ch = "/" -> <<"%", "2", "F">>
           [] ch = ":" -> <<"%", "3", "A">>
           [] ch = "+" -> <<"%", "2", "B">>
           [] ch = "=" -> <<"%", "3", "D">>
           [] ch = "&" -> <<"%", "2", "6">>
           [] OTHER -> <<"%", "?", "?">>

RECURSIVE PercentEncode(_)
PercentEncode(s) ==
    IF Len(s) = 0 THEN <<>>
    ELSE PercentEncodeChar(Head(s)) \o PercentEncode(Tail(s))

\* JSON.stringify of a string: quoted, with quote and backslash escaped
RECURSIVE JsonEscape(_)
JsonEscape(s) ==
    IF Len(s) = 0 THEN <<>>
    ELSE (IF Head(s) \in {"\"", "\\"} THEN <<"\\", Head(s)>> ELSE <<Head(s)>>)
         \o JsonEscape(Tail(s))

JsonString(s) == <<"\"">> \o JsonEscape(s) \o <<"\"">>

\* JSON.stringify of an array of numbers
JsonArray(arr) == <<"[">> \o ArrayJoin(arr) \o <<"]">>

(***************************************************************************)
(* A bbox is either an array of four numbers or an already joined string. *)
(***************************************************************************)
BboxArray(a) == [isArray |-> TRUE, arr |-> a, str |-> <<>>]
BboxString(s) == [isArray |-> FALSE, arr |-> <<>>, str |-> s]

(***************************************************************************)
(* The constructor: options -> the instance's fields.                     *)
(***************************************************************************)
Endpoint == <<"/", "t">>

Constructor(options) ==
    [endpoint      |-> options.endpoint,
     defaultWidth  |-> IF options.width # 0 THEN options.width ELSE DefaultWidth,
     defaultHeight |-> IF options.height # 0 THEN options.height ELSE DefaultHeight,
     defaultBands  |-> IF options.bands # <<>> THEN options.bands ELSE DefaultBands,
     cacheEnabled  |-> options.cache # "false",
     maxCacheSize  |-> IF options.maxCacheSize # 0 THEN options.maxCacheSize
                       ELSE DefaultMaxCacheSize]

\* a constructor that accepts any options
ConstructorNeverThrows(options) == FALSE

\* the constructor throws when options.endpoint is falsy
ConstructorThrows(options) == options.endpoint = <<>>

(***************************************************************************)
(* buildUrl and cacheKey, as methods of an instance self.                 *)
(***************************************************************************)
QueryPair(name, value) == PercentEncode(name) \o <<"=">> \o PercentEncode(value)

buildUrl(self, params) ==
    LET bbox   == IF params.bbox.isArray THEN ArrayJoin(params.bbox.arr)
                  ELSE params.bbox.str
        bands  == IF params.bands # <<>> THEN params.bands ELSE self.defaultBands
        width  == IF params.width # 0 THEN params.width ELSE self.defaultWidth
        height == IF params.height # 0 THEN params.height ELSE self.defaultHeight
    IN  self.endpoint \o <<"?">>
        \o QueryPair(<<"b", "b", "o", "x">>, bbox) \o <<"&">>
        \o QueryPair(<<"c", "r", "s">>, params.crs) \o <<"&">>
        \o QueryPair(<<"s", "o", "u", "r", "c", "e">>, params.source) \o <<"&">>
        \o QueryPair(<<"b", "a", "n", "d", "s">>, bands) \o <<"&">>
        \o QueryPair(<<"w", "i", "d", "t", "h">>, NumberToString(width)) \o <<"&">>
        \o QueryPair(<<"h", "e", "i", "g", "h", "t">>, NumberToString(height))

JsonMember(name, value) == JsonString(name) \o <<":">> \o value

\* lines 74-81: the object cacheKey serialises, fields after defaulting
KeyObject(self, params) ==
    [bbox   |-> params.bbox,
     crs    |-> params.crs,
     source |-> params.source,
     bands  |-> IF params.bands # <<>> THEN params.bands ELSE self.defaultBands,
     width  |-> IF params.width # 0 THEN params.width ELSE self.defaultWidth,
     height |-> IF params.height # 0 THEN params.height ELSE self.defaultHeight]

\* a key made of the fields as given, without the instance's defaults
cacheKeyNoDefaults(self, params) ==
    <<"{">>
    \o JsonMember(<<"b", "b", "o", "x">>,
                  IF params.bbox.isArray THEN JsonArray(params.bbox.arr)
                  ELSE JsonString(params.bbox.str)) \o <<",">>
    \o JsonMember(<<"b", "a", "n", "d", "s">>, JsonString(params.bands)) \o <<",">>
    \o JsonMember(<<"w", "i", "d", "t", "h">>, NumberToString(params.width)) \o <<",">>
    \o JsonMember(<<"h", "e", "i", "g", "h", "t">>, NumberToString(params.height))
    \o <<"}">>

\* a key that serialises an array bbox as its joined string
cacheKeyJoinsBbox(self, params) ==
    LET o == KeyObject(self, params) IN
    <<"{">>
    \o JsonMember(<<"b", "b", "o", "x">>,
                  JsonString(IF o.bbox.isArray THEN ArrayJoin(o.bbox.arr)
                             ELSE o.bbox.str)) \o <<",">>
    \o JsonMember(<<"c", "r", "s">>, JsonString(o.crs)) \o <<",">>
    \o JsonMember(<<"s", "o", "u", "r", "c", "e">>, JsonString(o.source)) \o <<",">>
    \o JsonMember(<<"b", "a", "n", "d", "s">>, JsonString(o.bands)) \o <<",">>
    \o JsonMember(<<"w", "i", "d", "t", "h">>, NumberToString(o.width)) \o <<",">>
    \o JsonMember(<<"h", "e", "i", "g", "h", "t">>, NumberToString(o.height))
    \o <<"}">>

cacheKey(self, params) ==
    LET bbox   == IF params.bbox.isArray THEN JsonArray(params.bbox.arr)
                  ELSE JsonString(params.bbox.str)
        bands  == IF params.bands # <<>> THEN params.bands ELSE self.defaultBands
        width  == IF params.width # 0 THEN params.width ELSE self.defaultWidth
        height == IF params.height # 0 THEN params.height ELSE self.defaultHeight
    IN  <<"{">>
        \o JsonMember(<<"b", "b", "o", "x">>, bbox) \o <<",">>
        \o JsonMember(<<"c", "r", "s">>, JsonString(params.crs)) \o <<",">>
        \o JsonMember(<<"s", "o", "u", "r", "c", "e">>, JsonString(params.source)) \o <<",">>
        \o JsonMember(<<"b", "a", "n", "d", "s">>, JsonString(bands)) \o <<",">>
        \o JsonMember(<<"w", "i", "d", "t", "h">>, NumberToString(width)) \o <<",">>
        \o JsonMember(<<"h", "e", "i", "g", "h", "t">>, NumberToString(height))
        \o <<"}">>

(***************************************************************************)
(* The JavaScript Map: a sequence of entries in insertion order.          *)
(***************************************************************************)
MapKeys(m) == {m[i].key : i \in 1..Len(m)}
MapHas(m, k) == k \in MapKeys(m)
MapIndex(m, k) == CHOOSE i \in 1..Len(m) : m[i].key = k
MapGet(m, k) == m[MapIndex(m, k)].img
MapSize(m) == Len(m)
\* keys().next().value: the first key in insertion order
MapFirstKey(m) == m[1].key
\* delete: removes the entry of k, if any
MapDelete(m, k) ==
    IF MapHas(m, k)
    THEN SubSeq(m, 1, MapIndex(m, k) - 1) \o SubSeq(m, MapIndex(m, k) + 1, Len(m))
    ELSE m
\* a set that keeps the value of an existing key (the first writer wins)
MapSetKeepsFirst(m, k, v) ==
    IF k \in {m[i].key : i \in 1..Len(m)} THEN m ELSE Append(m, [key |-> k, img |-> v])

\* set: an existing key keeps its position and gets the new value; a new
\* key is appended
MapSet(m, k, v) ==
    IF MapHas(m, k)
    THEN [m EXCEPT ![MapIndex(m, k)].img = v]
    ELSE Append(m, [key |-> k, img |-> v])
\* a clear that leaves the newest entry behind
MapClearKeepsNewest(m) == IF Len(m) = 0 THEN m ELSE <<m[Len(m)]>>

MapClear(m) == <<>>

(***************************************************************************)
(* What the callers and the network may do.                                *)
(***************************************************************************)
Calls == 1..MaxCalls
Tiles == 1..NumTiles

Crs == <<"E", "P", "S", "G", ":", "4">>
Source == <<"/", "s">>

TileBbox(t) == <<t - 1, t - 1, t, t>>

Request(bbox, bands, width, height) ==
    [bbox |-> bbox, crs |-> Crs, source |-> Source,
     bands |-> bands, width |-> width, height |-> height]

\* the requests the callers make: every tile with its bbox as an array and
\* the optional fields left out, the first tile also with its bbox as the
\* joined string, and the first tile with the default fields written out
Requests ==
    {Request(BboxArray(TileBbox(t)), <<>>, 0, 0) : t \in Tiles}
    \cup {Request(BboxString(ArrayJoin(TileBbox(1))), <<>>, 0, 0)}
    \cup {Request(BboxArray(TileBbox(1)), DefaultBands, DefaultWidth, DefaultHeight)}

\* the options the instance is constructed with
OptionSets ==
    [endpoint : {<<>>, Endpoint}, width : {0}, height : {0}, bands : {<<>>},
     cache : {"undefined", "false"}, maxCacheSize : 1..MaxCacheOpt]

\* HTTP statuses the endpoint answers with
Statuses == {200, 404}

ResponseOk(status) == status >= OkLow /\ status <= OkHigh

NoError == [name |-> "none", status |-> 0]
NoKey == <<>>

(***************************************************************************)
(* State.                                                                  *)
(***************************************************************************)
VARIABLES
    this,       \* the instance's fields, set by the constructor
    thrown,     \* TRUE when the constructor threw: there is no instance
    cache,      \* this.cache, a Map from key to bitmap
    pc,         \* per fetch call: where it is in fetch()
    key,        \* per fetch call: the const key of the call
    requests,   \* per fetch call: the URLs it asked the network for
    result,     \* per fetch call: the bitmap it resolved with (0: none)
    error,      \* per fetch call: what it rejected with
    closed,     \* the bitmaps whose close() was called
    lastOp,     \* the last step taken: what it was and what it removed
    args,       \* per call: the params given beforehand (when drawn at the start)
    draw,       \* per call: where its fetchAndDraw() is, its offset and result
    surface     \* the drawing surface: the drawImage calls made on it, in order

vars == <<this, thrown, cache, pc, key, requests, result, error, closed, lastOp,
          args, draw, surface>>

\* a bitmap is named by the call whose createImageBitmap produced it
Bitmaps == Calls

InFlight(c) == pc[c] \in {"awaitFetch", "awaitBlob", "awaitDecode"}

Op(name, c, removed) ==
    [op |-> name, call |-> c, size |-> MapSize(cache), evicted |-> removed]

\* no params given beforehand: every field undefined
NoArgs ==
    [bbox |-> BboxString(<<>>), crs |-> <<>>, source |-> <<>>,
     bands |-> <<>>, width |-> 0, height |-> 0]

\* the call is not a fetchAndDraw (or has not been made)
NoDraw == [pc |-> "none", rest |-> <<>>, x |-> 0, y |-> 0, result |-> 0]

\* no call has been made on the instance
NoCalls ==
    /\ cache = <<>>
    /\ pc = [c \in Calls |-> "idle"]
    /\ key = [c \in Calls |-> NoKey]
    /\ requests = [c \in Calls |-> <<>>]
    /\ result = [c \in Calls |-> 0]
    /\ error = [c \in Calls |-> NoError]
    /\ closed = {}
    /\ lastOp = [op |-> "new", call |-> 0, size |-> 0, evicted |-> <<>>]
    /\ draw = [c \in Calls |-> NoDraw]
    /\ surface = <<>>

Init ==
    /\ \E options \in OptionSets :
          /\ thrown = ConstructorThrows(options)
          /\ this = IF ConstructorThrows(options)
                    THEN Constructor([options EXCEPT !.endpoint = <<>>])
                    ELSE Constructor(options)
    /\ args = [c \in Calls |-> NoArgs]
    /\ draw = [c \in Calls |-> NoDraw]
    /\ surface = <<>>
    /\ cache = <<>>
    /\ pc = [c \in Calls |-> "idle"]
    /\ key = [c \in Calls |-> NoKey]
    /\ requests = [c \in Calls |-> <<>>]
    /\ result = [c \in Calls |-> 0]
    /\ error = [c \in Calls |-> NoError]
    /\ closed = {}
    /\ lastOp = [op |-> "new", call |-> 0, size |-> 0, evicted |-> <<>>]

(***************************************************************************)
(* fetch(params), up to its first await.                                   *)
(***************************************************************************)
\* a hit that refreshes the entry it reads, as an LRU cache would
CacheAfterHitTouch(m, k) ==
    MapSet(MapDelete(m, k), k, MapGet(m, k))

\* a hit that consumes the entry it read
CacheAfterHitDrops(m, k) == MapDelete(m, k)

\* lines 93-95: a hit reads the Map and leaves it as it is
CacheAfterHit(m, k) == m
\* a miss that joins an in-flight request for the same key
RequestsAfterMissCoalesced(self, reqs, params) ==
    IF \E d \in Calls : InFlight(d) /\ key[d] = cacheKey(self, params)
    THEN reqs
    ELSE Append(reqs, buildUrl(self, params))

\* lines 97-98: a miss asks the network once
RequestsAfterMiss(self, reqs, params) == Append(reqs, buildUrl(self, params))

FetchStart(c, params) ==
    /\ ~thrown
    /\ pc[c] = "idle"
    /\ \A d \in Calls : d < c => pc[d] # "idle"
    /\ LET k == cacheKey(this, params) IN
       /\ key' = [key EXCEPT ![c] = k]
       /\ IF this.cacheEnabled /\ MapHas(cache, k)
          THEN /\ pc' = [pc EXCEPT ![c] = "resolved"]
               /\ result' = [result EXCEPT ![c] = MapGet(cache, k)]
               /\ cache' = CacheAfterHit(cache, k)
               /\ lastOp' = Op("hit", c, <<>>)
               /\ UNCHANGED requests
          ELSE /\ pc' = [pc EXCEPT ![c] = "awaitFetch"]
               /\ requests' = [requests EXCEPT ![c] = RequestsAfterMiss(this, @, params)]
               /\ lastOp' = Op("miss", c, <<>>)
               /\ UNCHANGED <<cache, result>>
    /\ UNCHANGED <<this, thrown, error, closed, args>>

\* a call of fetch() on its own
FetchCall(c, params) == FetchStart(c, params) /\ UNCHANGED <<draw, surface>>

(***************************************************************************)
(* A throw inside fetch(): the call rejects, nothing else happens.         *)
(***************************************************************************)
\* a failure that drops the oldest entry
CacheAfterThrowEvicts(m) == IF Len(m) = 0 THEN m ELSE Tail(m)

CacheAfterThrow(m) == m

Throw(c, err) ==
    /\ pc' = [pc EXCEPT ![c] = "rejected"]
    /\ error' = [error EXCEPT ![c] = err]
    /\ cache' = CacheAfterThrow(cache)
    /\ lastOp' = Op("reject", 0, <<>>)
    /\ UNCHANGED <<this, thrown, key, requests, result, closed, args, draw, surface>>

Continue(c, next, name) ==
    /\ pc' = [pc EXCEPT ![c] = next]
    /\ lastOp' = Op(name, 0, <<>>)
    /\ UNCHANGED <<this, thrown, cache, key, requests, result, error, closed,
                   args, draw, surface>>

\* line 98 resumes with a response; lines 100-102 throw unless response.ok
Response(c, status) ==
    /\ pc[c] = "awaitFetch"
    /\ IF ResponseOk(status)
       THEN Continue(c, "awaitBlob", "response")
       ELSE Throw(c, [name |-> "Error", status |-> status])

\* line 98: the platform's fetch() itself rejects (no response at all)
NetworkFailure(c) ==
    /\ pc[c] = "awaitFetch"
    /\ Throw(c, [name |-> "TypeError", status |-> 0])

\* line 104: response.blob() resolves, or rejects
Blob(c, ok) ==
    /\ pc[c] = "awaitBlob"
    /\ IF ok
       THEN Continue(c, "awaitDecode", "blob")
       ELSE Throw(c, [name |-> "TypeError", status |-> 0])

(***************************************************************************)
(* Lines 105-117: createImageBitmap settles; on success the bitmap is      *)
(* cached (when caching is enabled) and returned.                          *)
(***************************************************************************)
\* lines 109-113: the entries delete() removes before the set
Evicted(self, m) ==
    IF MapSize(m) >= self.maxCacheSize
    THEN SelectSeq(m, LAMBDA e : e.key = MapFirstKey(m))
    ELSE <<>>
\* a store that never evicts
CacheAfterStoreNoEvict(self, m, k, img) ==
    IF self.cacheEnabled THEN MapSet(m, k, img) ELSE m

\* a store that caches nothing
CacheAfterStoreNoSet(self, m, k, img) == m

\* a store that evicts the newest entry instead of the oldest
CacheAfterStoreEvictsNewest(self, m, k, img) ==
    IF self.cacheEnabled
    THEN IF MapSize(m) >= self.maxCacheSize
         THEN MapSet(MapDelete(m, m[Len(m)].key), k, img)
         ELSE MapSet(m, k, img)
    ELSE m

\* a store that caches whether or not caching is enabled
CacheAfterStoreIgnoresFlag(self, m, k, img) ==
    IF MapSize(m) >= self.maxCacheSize
    THEN MapSet(MapDelete(m, MapFirstKey(m)), k, img)
    ELSE MapSet(m, k, img)

\* a store that sets the entry first and evicts the oldest afterwards
CacheAfterStoreSetThenEvict(self, m, k, img) ==
    IF self.cacheEnabled
    THEN IF MapSize(m) >= self.maxCacheSize
         THEN MapDelete(MapSet(m, k, img), MapFirstKey(m))
         ELSE MapSet(m, k, img)
    ELSE m

\* lines 108-115
CacheAfterStore(self, m, k, img) ==
    IF self.cacheEnabled
    THEN IF MapSize(m) >= self.maxCacheSize
         THEN MapSet(MapDelete(m, MapFirstKey(m)), k, img)
         ELSE MapSet(m, k, img)
    ELSE m

Decode(c, ok) ==
    /\ pc[c] = "awaitDecode"
    /\ IF ok
       THEN /\ pc' = [pc EXCEPT ![c] = "resolved"]
            /\ result' = [result EXCEPT ![c] = c]
            /\ cache' = CacheAfterStore(this, cache, key[c], c)
            /\ lastOp' = Op("store", c, IF this.cacheEnabled
                                        THEN Evicted(this, cache) ELSE <<>>)
            /\ UNCHANGED <<this, thrown, key, requests, error, closed,
                           args, draw, surface>>
       ELSE Throw(c, [name |-> "DecodeError", status |-> 0])

(***************************************************************************)
(* clearCache(), lines 136-138.                                            *)
(***************************************************************************)
\* a clearCache that also rejects the calls in flight
ClearCacheCancels ==
    /\ ~thrown
    /\ cache' = MapClear(cache)
    /\ pc' = [c \in Calls |-> IF InFlight(c) THEN "rejected" ELSE pc[c]]
    /\ error' = [c \in Calls |-> IF InFlight(c)
                                 THEN [name |-> "AbortError", status |-> 0]
                                 ELSE error[c]]
    /\ lastOp' = Op("clear", 0, cache)
    /\ UNCHANGED <<this, thrown, key, requests, result, closed,
                   args, draw, surface>>

\* lines 136-138
ClearCache ==
    /\ ~thrown
    /\ cache' = MapClear(cache)
    /\ lastOp' = Op("clear", 0, cache)
    /\ UNCHANGED <<this, thrown, pc, key, requests, result, error, closed,
                   args, draw, surface>>

Next ==
    \/ \E c \in Calls, params \in Requests : FetchCall(c, params)
    \/ \E c \in Calls, status \in Statuses : Response(c, status)
    \/ \E c \in Calls : NetworkFailure(c)
    \/ \E c \in Calls, ok \in BOOLEAN : Blob(c, ok)
    \/ \E c \in Calls, ok \in BOOLEAN : Decode(c, ok)
    \/ ClearCache

Spec == Init /\ [][Next]_vars

(***************************************************************************)
(* Calls made one after another: a fetch starts only when no other call   *)
(* is in flight, and the cache is not cleared.                             *)
(***************************************************************************)
NoneInFlight == \A c \in Calls : ~InFlight(c)

NextSeq ==
    \/ \E c \in Calls, params \in Requests : NoneInFlight /\ FetchCall(c, params)
    \/ \E c \in Calls, status \in Statuses : Response(c, status)
    \/ \E c \in Calls : NetworkFailure(c)
    \/ \E c \in Calls, ok \in BOOLEAN : Blob(c, ok)
    \/ \E c \in Calls, ok \in BOOLEAN : Decode(c, ok)

SpecSeq == Init /\ [][NextSeq]_vars

(***************************************************************************)
(* cacheKey and buildUrl on their own: an instance with any defaults, two  *)
(* requests drawn beforehand, and the two calls that start on them.        *)
(***************************************************************************)
KeyOptionSets ==
    [endpoint : {Endpoint}, width : {0, 256}, height : {0}, bands : {<<>>, <<"1">>},
     cache : {"undefined"}, maxCacheSize : {0}]

KeyRequests ==
    {Request(b, bands, w, h) :
        b \in {BboxArray(TileBbox(t)) : t \in Tiles}
              \cup {BboxString(ArrayJoin(TileBbox(1)))},
        bands \in {<<>>, <<"1">>, DefaultBands},
        w \in {0, 256, DefaultWidth},
        h \in {0, DefaultHeight}}

InitKey ==
    /\ \E options \in KeyOptionSets :
          /\ thrown = ConstructorThrows(options)
          /\ this = Constructor(options)
    /\ \E r1, r2 \in KeyRequests :
          args = [c \in Calls |-> IF c = 1 THEN r1 ELSE IF c = 2 THEN r2 ELSE NoArgs]
    /\ NoCalls

NextKey == \E c \in 1..2 : FetchCall(c, args[c])

SpecKey == InitKey /\ [][NextKey]_vars

(***************************************************************************)
(* fetchAndDraw(ctx, params, x = 0, y = 0), lines 127-131: it calls        *)
(* fetch(), and when that promise settles it draws and returns the bitmap, *)
(* or rejects.  rest is the list of arguments given after params.          *)
(***************************************************************************)
OffsetArgs == {<<>>, <<1>>, <<1, 2>>}

\* a default parameter takes its default when the argument is not given
ArgX(rest) == IF Len(rest) >= 1 THEN rest[1] ELSE 0
ArgY(rest) == IF Len(rest) >= 2 THEN rest[2] ELSE 0

DrawCall(c, params, rest) ==
    /\ FetchStart(c, params)
    /\ draw' = [draw EXCEPT ![c] = [pc |-> "awaitFetch", rest |-> rest,
                                     x |-> ArgX(rest), y |-> ArgY(rest),
                                     result |-> 0]]
    /\ UNCHANGED surface

\* a draw at the origin, whatever offset was given
SurfaceAfterDrawAtOrigin(s, c, img, x, y) ==
    Append(s, [by |-> c, img |-> img, x |-> 0, y |-> 0])

\* line 129: ctx.drawImage(img, x, y); by is the call that drew
SurfaceAfterDraw(s, c, img, x, y) ==
    Append(s, [by |-> c, img |-> img, x |-> x, y |-> y])

\* a rejection that still draws (bitmap 0: nothing to draw)
SurfaceAfterRejectDraws(s, c) ==
    Append(s, [by |-> c, img |-> 0, x |-> 0, y |-> 0])

\* line 128 when the fetch rejected: the await throws, line 129 is not reached
SurfaceAfterReject(s, c) == s

DrawResume(c) ==
    /\ draw[c].pc = "awaitFetch"
    /\ pc[c] \in {"resolved", "rejected"}
    /\ IF pc[c] = "resolved"
       THEN /\ surface' = SurfaceAfterDraw(surface, c, result[c], draw[c].x, draw[c].y)
            /\ draw' = [draw EXCEPT ![c].pc = "resolved", ![c].result = result[c]]
            /\ lastOp' = Op("draw", 0, <<>>)
       ELSE /\ surface' = SurfaceAfterReject(surface, c)
            /\ draw' = [draw EXCEPT ![c].pc = "rejected"]
            /\ lastOp' = Op("drawReject", 0, <<>>)
    /\ UNCHANGED <<this, thrown, cache, pc, key, requests, result, error, closed, args>>

NextDraw ==
    \/ \E c \in 1..MaxDraws, params \in Requests, rest \in OffsetArgs :
          DrawCall(c, params, rest)
    \/ \E c \in Calls, status \in Statuses : Response(c, status)
    \/ \E c \in Calls : NetworkFailure(c)
    \/ \E c \in Calls, ok \in BOOLEAN : Blob(c, ok)
    \/ \E c \in Calls, ok \in BOOLEAN : Decode(c, ok)
    \/ \E c \in Calls : DrawResume(c)
    \/ ClearCache

SpecDraw == Init /\ [][NextDraw]_vars

(***************************************************************************)
(* The instance built with only an endpoint: every option at its default,  *)
(* so the cache has room for DefaultMaxCacheSize entries.                   *)
(***************************************************************************)
DefaultOptions ==
    [endpoint |-> Endpoint, width |-> 0, height |-> 0, bands |-> <<>>,
     cache |-> "undefined", maxCacheSize |-> 0]

InitDefault ==
    /\ thrown = ConstructorThrows(DefaultOptions)
    /\ this = Constructor(DefaultOptions)
    /\ args = [c \in Calls |-> NoArgs]
    /\ NoCalls

SpecDefault == InitDefault /\ [][Next]_vars

(***************************************************************************)
(* Steps, as seen from a pair of states.                                   *)
(***************************************************************************)
HitStep(c) == pc[c] = "idle" /\ pc'[c] = "resolved"
MissStep(c) == pc[c] = "idle" /\ pc'[c] = "awaitFetch"
StoreStep(c) == pc[c] = "awaitDecode" /\ pc'[c] = "resolved"
RejectStep(c) == InFlight(c) /\ pc'[c] = "rejected"

Started == {c \in Calls : pc[c] # "idle"}
\* the calls that resolved with a bitmap of their own, fetched and decoded
FromNetwork(c) == pc[c] = "resolved" /\ result[c] = c
\* the calls that resolved with a bitmap read from the cache
FromCache(c) == pc[c] = "resolved" /\ result[c] # c

(***************************************************************************)
(* Properties.                                                             *)
(***************************************************************************)

\* C1: the cache never holds more than maxCacheSize entries, whatever the
\* interleaving of fetch calls and clearCache calls.
C1_SizeBounded == ~thrown => MapSize(cache) <= this.maxCacheSize

\* C1 witness: a store onto a full cache, while another call is in flight,
\* leaves the cache full.
C1_Witness ==
    /\ lastOp.op = "store" /\ this.cacheEnabled
    /\ lastOp.size = this.maxCacheSize
    /\ MapSize(cache) = this.maxCacheSize
    /\ \E c \in Calls : InFlight(c)

\* C2 (as claimed): a store onto a full cache removes exactly one entry, the
\* first in insertion order, whose key is then absent, and leaves the cache
\* holding exactly maxCacheSize entries.
C2_AsClaimed ==
    [][\A c \in Calls :
         (StoreStep(c) /\ this.cacheEnabled /\ MapSize(cache) = this.maxCacheSize)
         => /\ ~MapHas(cache', MapFirstKey(cache))
            /\ MapKeys(cache) \ MapKeys(cache') = {MapFirstKey(cache)}
            /\ MapSize(cache') = this.maxCacheSize]_vars

\* C3: when a fetch has just stored its bitmap and the next step is a fetch
\* with the same key, that fetch is served from the cache with the stored
\* bitmap, and the two calls made one network request between them.
C3_SecondServedFromCache ==
    [][(/\ lastOp.op = "store" /\ this.cacheEnabled
        /\ lastOp'.op \in {"hit", "miss"}
        /\ key'[lastOp'.call] = key[lastOp.call])
       => /\ lastOp'.op = "hit"
          /\ result'[lastOp'.call] = result[lastOp.call]
          /\ result[lastOp.call] = lastOp.call
          /\ Len(requests'[lastOp.call]) + Len(requests'[lastOp'.call]) = 1]_vars

\* C3 witness: call 1 fetched and stored, then call 2 with the same key was
\* served call 1's bitmap without a request; nothing else was started.
C3_Witness ==
    /\ lastOp.op = "hit" /\ lastOp.call = 2
    /\ FromNetwork(1) /\ key[2] = key[1]
    /\ pc[2] = "resolved" /\ result[2] = 1
    /\ Len(requests[1]) = 1 /\ requests[2] = <<>>
    /\ \A c \in Calls : c > 2 => pc[c] = "idle"

\* C4: a step that rejects a call (bad status, network failure, undecodable
\* body) gives the caller an error and leaves the cache exactly as it was.
C4_FailureLeavesCache ==
    [][\A c \in Calls :
         RejectStep(c) => /\ cache' = cache
                          /\ error'[c] # NoError
                          /\ result'[c] = 0]_vars

\* C4 witness: with a full cache, one call was rejected with status 404 and
\* another with a decode error; the last step was a rejection.
C4_Witness ==
    /\ lastOp.op = "reject" /\ this.cacheEnabled
    /\ MapSize(cache) = this.maxCacheSize
    /\ \E c \in Calls : pc[c] = "rejected" /\ error[c] = [name |-> "Error", status |-> 404]
    /\ \E c \in Calls : pc[c] = "rejected" /\ error[c].name = "DecodeError"

\* C5 (as claimed): a bitmap that is in the cache before a step and not
\* after it has been closed by that step.
C5_AsClaimed ==
    [][\A i \in 1..Len(cache) :
         (\A j \in 1..Len(cache') : cache'[j].img # cache[i].img)
         => cache[i].img \in closed']_vars

C7_LastNKept ==
    LET n == Cardinality(Started)
        m == IF n < this.maxCacheSize THEN n ELSE this.maxCacheSize
    IN  (/\ this.cacheEnabled
         /\ \A c \in Started : FromNetwork(c)
         /\ \A c, d \in Started : c # d => key[c] # key[d])
        => cache = [i \in 1..m |-> [key |-> key[n - m + i], img |-> n - m + i]]

\* C7 witness: maxCacheSize = 2 and three distinct keys fetched in sequence;
\* the cache holds the second and the third, not the first.
C7_Witness ==
    /\ this.cacheEnabled /\ this.maxCacheSize = 2
    /\ \A c \in 1..3 : FromNetwork(c)
    /\ \A c \in Calls : c > 3 => pc[c] = "idle"
    /\ \A c, d \in 1..3 : c # d => key[c] # key[d]
    /\ MapKeys(cache) = {key[2], key[3]}
    /\ ~MapHas(cache, key[1])

\* C8: a clearCache step leaves no entry, and a fetch started right after it
\* goes to the network.
C8_ClearEmpties ==
    [][/\ lastOp'.op = "clear"
          => /\ MapSize(cache') = 0
             /\ \A k \in MapKeys(cache) : ~MapHas(cache', k)
       /\ (lastOp.op = "clear" /\ lastOp'.op \in {"hit", "miss"})
          => /\ lastOp'.op = "miss"
             /\ Len(requests'[lastOp'.call]) = 1
             /\ pc'[lastOp'.call] = "awaitFetch"]_vars

\* C8 witness: a key that one call fetched and stored is asked for again,
\* misses, and the cache is empty: it was cleared in between.
C8_Witness ==
    /\ lastOp.op = "miss" /\ this.cacheEnabled
    /\ MapSize(cache) = 0
    /\ \E c \in Calls : FromNetwork(c) /\ key[c] = key[lastOp.call]

\* C9: every call has made no request when idle or served from the cache,
\* and exactly one otherwise, also when other calls for the same key are in
\* flight and also after it failed.
C9_OneRequestPerMiss ==
    \A c \in Calls :
       /\ Len(requests[c]) <= 1
       /\ (pc[c] = "idle" \/ FromCache(c)) => Len(requests[c]) = 0
       /\ (InFlight(c) \/ pc[c] = "rejected" \/ FromNetwork(c)) => Len(requests[c]) = 1

\* C9 witness: two calls for the same key are in flight at once, each with
\* its own request, and a third call has failed.
C9_Witness ==
    \E c, d, e \in Calls :
       /\ c # d /\ InFlight(c) /\ InFlight(d) /\ key[c] = key[d]
       /\ Len(requests[c]) = 1 /\ Len(requests[d]) = 1
       /\ pc[e] = "rejected" /\ Len(requests[e]) = 1

\* C10: every store puts the storing call's bitmap under its key, and an
\* entry's bitmap is never set otherwise: the entry of a key holds the
\* bitmap of the fetch of that key that completed last.
C10_LastCompletedWins ==
    [][/\ \A c \in Calls :
            (StoreStep(c) /\ this.cacheEnabled)
            => MapHas(cache', key[c]) /\ MapGet(cache', key[c]) = c
       /\ \A k \in MapKeys(cache') :
            (~MapHas(cache, k) \/ MapGet(cache, k) # MapGet(cache', k))
            => \E c \in Calls : StoreStep(c) /\ key[c] = k /\ MapGet(cache', k) = c]_vars

\* C10 witness: two fetches of one key overlapped, the one started first
\* completed last, and the entry holds its bitmap.
C10_Witness ==
    /\ lastOp.op = "store" /\ this.cacheEnabled
    /\ \E d \in Calls :
          /\ d > lastOp.call /\ key[d] = key[lastOp.call] /\ FromNetwork(d)
    /\ MapGet(cache, key[lastOp.call]) = lastOp.call

\* C11: two requests whose fields after defaulting are identical, the bbox
\* in the same representation, get the same cache key; so leaving out bands,
\* width or height gives the key of the instance's default written out.
C11_EqualFieldsEqualKeys ==
    \A c, d \in Started :
       KeyObject(this, args[c]) = KeyObject(this, args[d]) => key[c] = key[d]

\* C11 witness: on an instance whose default width is not the built-in one,
\* a request without bands and width and a request that writes the
\* instance's defaults out have started with the same key.
C11_Witness ==
    /\ this.defaultWidth # DefaultWidth
    /\ pc[1] # "idle" /\ pc[2] # "idle"
    /\ args[1].bands = <<>> /\ args[1].width = 0
    /\ args[2].bands = this.defaultBands /\ args[2].width = this.defaultWidth
    /\ args[1].height = args[2].height /\ args[1].bbox = args[2].bbox
    /\ key[1] = key[2]

\* ra has its bbox as an array of four numbers, rs has the comma-joined
\* string of the same numbers, and their other fields are the same
BboxTwins(ra, rs) ==
    /\ ra.bbox.isArray /\ Len(ra.bbox.arr) = 4
    /\ ~rs.bbox.isArray /\ rs.bbox.str = ArrayJoin(ra.bbox.arr)
    /\ [ra EXCEPT !.bbox = rs.bbox] = rs

\* C12: an array bbox and the joined string of the same values give the
\* same URL and different keys; when the first two calls on an instance
\* with caching are such a pair, made one after the other, the second
\* also goes to the network (same URL) and stores an entry of its own
\* beside the first one (which stays unless FIFO eviction removed it).
C12_BboxFormsDoNotCollide ==
    \A ra, rs \in Requests :
       BboxTwins(ra, rs)
       => /\ buildUrl(this, ra) = buildUrl(this, rs)
          /\ cacheKey(this, ra) # cacheKey(this, rs)
          /\ \A c, d \in 1..2 :
                (/\ c # d /\ this.cacheEnabled
                 /\ pc[1] # "idle" /\ pc[2] # "idle"
                 /\ key[c] = cacheKey(this, ra) /\ key[d] = cacheKey(this, rs)
                 /\ FromNetwork(1))
                => /\ Len(requests[2]) = 1
                   /\ requests[2] = requests[1]
                   /\ (FromNetwork(2) /\ \A e \in Calls : e > 2 => pc[e] = "idle")
                      => /\ MapGet(cache, key[2]) = 2
                         /\ this.maxCacheSize >= 2
                            => (MapSize(cache) = 2 /\ MapGet(cache, key[1]) = 1)

\* C12 witness: the array form then the string form of one bbox were
\* fetched in sequence; each made a request, for the same URL, and the
\* cache holds two entries.
C12_Witness ==
    /\ this.cacheEnabled
    /\ \E ra, rs \in Requests :
          BboxTwins(ra, rs) /\ key[1] = cacheKey(this, ra) /\ key[2] = cacheKey(this, rs)
    /\ FromNetwork(1) /\ FromNetwork(2)
    /\ Len(requests[1]) = 1 /\ requests[2] = requests[1]
    /\ MapSize(cache) = 2 /\ MapKeys(cache) = {key[1], key[2]}

\* C13: construction throws exactly when the endpoint option is missing or
\* empty; then there is no instance, so nothing is ever called on it; an
\* instance that was constructed starts with an empty cache.
C13_EndpointRequired ==
    /\ thrown <=> this.endpoint = <<>>
    /\ thrown => (lastOp.op = "new" /\ Started = {} /\ MapSize(cache) = 0)
    /\ (~thrown /\ lastOp.op = "new") => (MapSize(cache) = 0 /\ Started = {})

\* C13 witness: the constructor was called without an endpoint and threw.
C13_Witness == thrown /\ this.endpoint = <<>> /\ lastOp.op = "new"

\* C14: on an instance constructed with cache: false the Map is empty in
\* every state and every call that has started made its network request;
\* none was served from the cache.
C14_CacheDisabled ==
    (~thrown /\ ~this.cacheEnabled)
    => /\ MapSize(cache) = 0
       /\ \A c \in Started : Len(requests[c]) = 1 /\ ~FromCache(c)

\* C14 witness: with the cache disabled, call 1 succeeded and call 2, just
\* started with the same key, has made a request of its own.
C14_Witness ==
    /\ ~thrown /\ ~this.cacheEnabled
    /\ FromNetwork(1)
    /\ lastOp.op = "miss" /\ lastOp.call = 2
    /\ key[2] = key[1] /\ Len(requests[2]) = 1 /\ requests[2] = requests[1]

\* the drawImage calls that call c's fetchAndDraw made on the surface
DrawnBy(c) == SelectSeq(surface, LAMBDA e : e.by = c)

\* C15: a fetchAndDraw that has resolved drew exactly once, the bitmap its
\* fetch resolved with, at the offset given (0 for an argument left out),
\* and returned that bitmap; one that has not resolved, because its fetch
\* is pending or failed, has drawn nothing, and it rejects only when its
\* fetch rejected.
C15_DrawsOnceWhatItFetched ==
    \A c \in Calls :
       /\ draw[c].pc = "resolved"
          => /\ Len(DrawnBy(c)) = 1
             /\ pc[c] = "resolved"
             /\ DrawnBy(c)[1].img = result[c]
             /\ DrawnBy(c)[1].x = (IF Len(draw[c].rest) >= 1 THEN draw[c].rest[1] ELSE 0)
             /\ DrawnBy(c)[1].y = (IF Len(draw[c].rest) >= 2 THEN draw[c].rest[2] ELSE 0)
             /\ draw[c].result = result[c]
       /\ draw[c].pc # "resolved" => Len(DrawnBy(c)) = 0
       /\ draw[c].pc = "rejected" => (pc[c] = "rejected" /\ draw[c].result = 0)

\* C15 witness: call 1 fetched from the network and drew at the default
\* offset; call 2 was served call 1's bitmap from the cache and drew it at
\* (1, 2); the surface shows the two draws in that order.
C15_Witness ==
    /\ FromNetwork(1) /\ FromCache(2) /\ result[2] = 1
    /\ draw[1].pc = "resolved" /\ draw[1].rest = <<>>
    /\ draw[2].pc = "resolved" /\ draw[2].rest = <<1, 2>>
    /\ surface = <<[by |-> 1, img |-> 1, x |-> 0, y |-> 0],
                   [by |-> 2, img |-> 1, x |-> 1, y |-> 2]>>

\* C16 (as claimed): after every store the storing call's key is the last
\* entry in the Map's order, the last one FIFO eviction would remove.
C16_AsClaimed ==
    [][\A c \in Calls :
         (StoreStep(c) /\ this.cacheEnabled)
         => cache'[Len(cache')].key = key[c]]_vars

\* the (key, bitmap) pairs of a Map
Entries(m) == {m[i] : i \in 1..Len(m)}

C18_StoredKeyPresent ==
    (lastOp.op = "store" /\ this.cacheEnabled)
    => /\ MapHas(cache, key[lastOp.call])
       /\ MapGet(cache, key[lastOp.call]) = result[lastOp.call]
       /\ result[lastOp.call] = lastOp.call

\* C18 witness: the store found the cache full with its own key oldest,
\* evicted that entry, and the key is in the cache with the new bitmap.
C18_Witness ==
    /\ lastOp.op = "store" /\ this.cacheEnabled
    /\ Len(lastOp.evicted) = 1
    /\ lastOp.evicted[1].key = key[lastOp.call]
    /\ lastOp.evicted[1].img # lastOp.call
    /\ MapGet(cache, key[lastOp.call]) = lastOp.call

\* C19: a clearCache step leaves every call where it was (position, key,
\* request, result, error), and a call that was awaiting its decode across
\* the clear and then stores puts its entry into the emptied cache.
C19_ClearLeavesFetches ==
    [][/\ lastOp'.op = "clear"
          => /\ pc' = pc /\ key' = key /\ requests' = requests
             /\ result' = result /\ error' = error
       /\ \A c \in Calls :
            (lastOp.op = "clear" /\ StoreStep(c) /\ this.cacheEnabled)
            => cache' = <<[key |-> key[c], img |-> c]>>]_vars

\* C19 witness: calls 1 and 2 were started, call 2 stored, clearCache ran,
\* then call 1 stored into the empty cache; no call was started afterwards.
C19_Witness ==
    /\ this.cacheEnabled
    /\ lastOp.op = "store" /\ lastOp.call = 1 /\ lastOp.size = 0
    /\ FromNetwork(1) /\ FromNetwork(2)
    /\ \A c \in Calls : c > 2 => pc[c] = "idle"
    /\ cache = <<[key |-> key[1], img |-> 1]>>

====
